---------------------------- MODULE Spec2Model ----------------------------
(***************************************************************************)
(* richdiff: lock-step comparison of two delimited files (src/main.rs)     *)
(* and the problem aggregate with its display export (src/problems.rs).    *)
(*                                                                         *)
(* The specifications share the variables:                                 *)
(*   Spec     the program: main -> Summary::new(None) -> compare_lines ->  *)
(*            handle_crash | generate_report -> display_data               *)
(*   FairSpec Spec with weak fairness (the program is sequential and       *)
(*            always takes its next step)                                  *)
(*   SpecAPI  the Problems type used directly: Problems::new(cap), any     *)
(*            sequence of insert_* calls, then display_data                *)
(*   SpecCompareLine  one call of Summary::compare_line on two rows        *)
(*   SpecSummary  Spec with Summary::new given any cap, not only None      *)
(*   SpecCategory  Problem::category called on problems of every variant   *)
(***************************************************************************)
EXTENDS Integers, Sequences, FiniteSets, TLC

(* ------------------------------ bounds -------------------------------- *)

\* rows in one file, in Spec
MaxRows == 3
\* fields in one row, in SpecCompareLine
MaxCols == 3
\* insert_line_problem calls in SpecAPI
MaxLineProblems == 3
\* insert_extra_lines_problem / insert_missing_lines_problem calls, each, in SpecAPI
MaxRowCalls == 2
\* line numbers passed to the insert_* calls in SpecAPI
MaxLine == 2
\* caps passed to Problems::new in SpecAPI
MaxCap == 2

\* field texts
Cells == {"a", "b"}

\* the rows the two files of Spec are made of
FileRows == {<<"a">>, <<"b">>, <<"a", "b">>}

\* entries the Vec `problems` of display_data can hold before its allocation
\* fails (Vec::push aborts the process then); no less than any number of
\* recorded problems within the bounds (two per row of a file in Spec,
\* MaxLineProblems + 2 in SpecAPI)
VecCapacity ==
    IF 2 * MaxRows >= MaxLineProblems + 2 THEN 2 * MaxRows ELSE MaxLineProblems + 2

(* --------------------------- program constants ------------------------ *)

DEFAULT_MAX_PROBLEMS == 50

(* ------------------------------ data ---------------------------------- *)

None == [some |-> FALSE]

Some(v) == [some |-> TRUE, val |-> v]

Min(a, b) == IF a <= b THEN a ELSE b

\* a csv::StringRecord read from a file: at least one field
Rows == UNION {[1..n -> Cells] : n \in 1..MaxCols}

MismatchedCell(line, column, expected, actual) ==
    [kind |-> "MismatchedCell", line |-> line, column |-> column,
     expected |-> expected, actual |-> actual]

ExtraCell(line, column) == [kind |-> "ExtraCell", line |-> line, column |-> column]

MissingCell(line, column) == [kind |-> "MissingCell", line |-> line, column |-> column]

ExtraLinesProblem(line, num_extra) == [line |-> line, num_extra |-> num_extra]

MissingLinesProblem(line, num_missing) == [line |-> line, num_missing |-> num_missing]

\* Problem::Line(..)
ProblemLine(line_problem) == [variant |-> "Line", line_problem |-> line_problem]

\* Problem::File(FileProblem::ExtraLines(..))
ProblemExtraLines(p) == [variant |-> "ExtraLines", file_problem |-> p]

\* Problem::File(FileProblem::MissingLines(..))
ProblemMissingLines(p) == [variant |-> "MissingLines", file_problem |-> p]

ProblemCategory ==
    <<"MismatchedCells", "ExtraCells", "MissingCells", "ExtraLines", "MissingLines">>

CategoryFileProblemsMerged(problem) ==
    IF problem.variant = "Line"
    THEN CASE problem.line_problem.kind = "MismatchedCell" -> "MismatchedCells"
           [] problem.line_problem.kind = "ExtraCell" -> "ExtraCells"
           [] problem.line_problem.kind = "MissingCell" -> "MissingCells"
    ELSE "ExtraLines"

\* Problem::category
Category(problem) ==
    IF problem.variant = "Line"
    THEN CASE problem.line_problem.kind = "MismatchedCell" -> "MismatchedCells"
           [] problem.line_problem.kind = "ExtraCell" -> "ExtraCells"
           [] problem.line_problem.kind = "MissingCell" -> "MissingCells"
    ELSE IF problem.variant = "ExtraLines" THEN "ExtraLines" ELSE "MissingLines"

\* categories.iter().sorted().cloned().collect(): derive(Ord) orders the
\* variants by declaration
SortedCategoriesReversed(set) ==
    SelectSeq([i \in 1..Len(ProblemCategory) |->
                   ProblemCategory[Len(ProblemCategory) + 1 - i]],
              LAMBDA c : c \in set)

SortedCategories(set) ==
    SelectSeq(ProblemCategory, LAMBDA c : c \in set)

(* ------------------------------ state --------------------------------- *)

VARIABLES
    pc,                       \* position of the program
    max_problems_to_display,  \* Problems.max_problems_to_display
    extra_lines_problem,      \* Problems.extra_lines_problem : Option
    missing_lines_problem,    \* Problems.missing_lines_problem : Option
    line_problems,            \* Problems.line_problems : Vec
    errors,                   \* Summary.errors : Vec<csv::Error>, as [side, line]
    line_number,              \* compare_lines: line_number
    rdr0,                     \* expected reader: records yielded, exhausted
    rdr1,                     \* actual reader: records yielded, exhausted
    lines,                    \* compare_lines: the item of the current iteration
    displayable,              \* display_data: the DisplayableProblems iterator
    categories,               \* display_data: categories
    problems,                 \* display_data: problems
    display,                  \* the DisplayProblems display_data returned
    calls,                    \* history: the insert_* calls made so far
    identical,                \* history: every iteration so far paired two
                              \* parsed rows with the same fields
    category_calls            \* SpecCategory: the calls of Problem::category
                              \* made directly, argument and value returned

vars == <<pc, max_problems_to_display, extra_lines_problem, missing_lines_problem,
          line_problems, errors, line_number, rdr0, rdr1, lines, displayable,
          categories, problems, display, calls, identical, category_calls>>

aggregate == <<max_problems_to_display, extra_lines_problem, missing_lines_problem,
               line_problems>>

driver == <<errors, line_number, rdr0, rdr1, lines, identical>>

export == <<displayable, categories, problems, display>>


(* --------------------- Problems (src/problems.rs) --------------------- *)

\* 1 for a present Option, 0 for None: .as_ref().map(|_| 1).unwrap_or(0)
Present(opt) == IF opt.some THEN 1 ELSE 0

\* Problems::len
ProblemsLen(lp, extra, missing) == Len(lp) + Present(extra) + Present(missing)

InsertExtraLinesProblemReanchor(extra, line) ==
    IF ~extra.some
    THEN Some(ExtraLinesProblem(line, 1))
    ELSE Some(ExtraLinesProblem(line, extra.val.num_extra + 1))

\* Problems::insert_extra_lines_problem
InsertExtraLinesProblem(extra, line) ==
    IF ~extra.some
    THEN Some(ExtraLinesProblem(line, 1))
    ELSE Some(ExtraLinesProblem(extra.val.line, extra.val.num_extra + 1))

InsertMissingLinesProblemReanchor(missing, line) ==
    IF ~missing.some
    THEN Some(MissingLinesProblem(line, 1))
    ELSE Some(MissingLinesProblem(line, missing.val.num_missing + 1))

\* Problems::insert_missing_lines_problem
InsertMissingLinesProblem(missing, line) ==
    IF ~missing.some
    THEN Some(MissingLinesProblem(line, 1))
    ELSE Some(MissingLinesProblem(missing.val.line, missing.val.num_missing + 1))

InsertLineProblemResetAtCap(lp, cap, problem) ==
    IF Len(lp) >= cap THEN <<problem>> ELSE Append(lp, problem)

InsertLineProblemFront(lp, cap, problem) == <<problem>> \o lp

InsertLineProblemCapped(lp, cap, problem) ==
    IF Len(lp) < cap THEN Append(lp, problem) ELSE lp

\* Problems::insert_line_problem: a push, whatever the cap
InsertLineProblem(lp, cap, problem) == Append(lp, problem)

\* the usize subtraction of displayable_problems overflows
Underflows(cap, lp, extra, missing) == cap < ProblemsLen(lp, extra, missing) - Len(lp)

\* displayable_problems: line_problems_to_display.  Where the subtraction
\* wraps (a build without overflow checks) the difference is at least
\* 2^64 - 2, above the length of any Vec, so the minimum is the length.
LineProblemsToDisplay(cap, lp, extra, missing) ==
    IF Underflows(cap, lp, extra, missing)
    THEN Len(lp)
    ELSE Min(Len(lp), cap - (ProblemsLen(lp, extra, missing) - Len(lp)))

\* Problems::displayable_problems; iter is the position of the slice iterator
DisplayableProblems(cap, lp, extra, missing) ==
    [line_problems_to_display |-> LineProblemsToDisplay(cap, lp, extra, missing),
     extra_lines_problem |-> extra,
     missing_lines_problem |-> missing,
     iter |-> 1]

FoundMaxProblemsNever(len, cap) == FALSE

FoundMaxProblemsStrict(len, cap) == len > cap

FoundMaxProblemsAtMost(len, cap) == len <= cap

\* display_data: found_max_problems
FoundMaxProblems(len, cap) == len >= cap

\* the categories of every recorded problem
RecordedCategories ==
    {Category(ProblemLine(line_problems[i])) : i \in 1..Len(line_problems)}
    \cup (IF extra_lines_problem.some THEN {"ExtraLines"} ELSE {})
    \cup (IF missing_lines_problem.some THEN {"MissingLines"} ELSE {})

DisplayProblemsOfAllRecorded(len, cap, cats, probs) ==
    [num_problems |-> len,
     found_max_problems |-> FoundMaxProblems(len, cap),
     problem_categories |-> SortedCategories(RecordedCategories),
     problems |-> probs]

\* display_data: the value returned
DisplayProblems(len, cap, cats, probs) ==
    [num_problems |-> len,
     found_max_problems |-> FoundMaxProblems(len, cap),
     problem_categories |-> SortedCategories(cats),
     problems |-> probs]

(* ----------------- Summary::compare_line (src/main.rs) ---------------- *)

\* one item of expected_line.iter().zip_longest(actual_line.iter())
ZipLongestCells(expected_line, actual_line, i) ==
    IF i <= Len(expected_line) /\ i <= Len(actual_line) THEN "Both"
    ELSE IF i <= Len(expected_line) THEN "Left" ELSE "Right"

\* compare_line: the loop from the i-th pair of cells on, with the aggregate's
\* line_problems threaded through the insert_line_problem calls
RECURSIVE CompareLineFrom(_, _, _, _, _, _, _)
CompareLineFrom(lp, cap, line, i, column_number, expected_line, actual_line) ==
    IF i > Len(expected_line) /\ i > Len(actual_line)
    THEN lp
    ELSE LET cells == ZipLongestCells(expected_line, actual_line, i)
             lp1 == CASE cells = "Both" ->
                           IF expected_line[i] # actual_line[i]
                           THEN InsertLineProblem(lp, cap,
                                    MismatchedCell(line, column_number,
                                                   expected_line[i], actual_line[i]))
                           ELSE lp
                      [] cells = "Left" ->
                           InsertLineProblem(lp, cap, MissingCell(line, column_number))
                      [] cells = "Right" ->
                           InsertLineProblem(lp, cap, ExtraCell(line, column_number))
         IN  CompareLineFrom(lp1, cap, line, i + 1, column_number + 1,
                             expected_line, actual_line)

CompareLineZeroBased(lp, cap, line, expected_line, actual_line) ==
    CompareLineFrom(lp, cap, line, 1, 0, expected_line, actual_line)

\* Summary::compare_line: let mut column_number = 1, then the loop
CompareLine(lp, cap, line, expected_line, actual_line) ==
    CompareLineFrom(lp, cap, line, 1, 1, expected_line, actual_line)

(* ---------------- Summary::compare_lines (src/main.rs) ---------------- *)

Ok(row) == [ok |-> TRUE, row |-> row]

Err == [ok |-> FALSE]

PullUnfused(rdr) ==
    IF rdr.pos >= MaxRows
    THEN {None}
    ELSE {None} \cup {Some(Ok(r)) : r \in FileRows} \cup {Some(Err)}

\* what one reader's records() iterator, fused by zip_longest, can yield next:
\* None once it has yielded None, else a record, a malformed record, or the
\* end of the file
Pull(rdr) ==
    IF rdr.done \/ rdr.pos >= MaxRows
    THEN {None}
    ELSE {None} \cup {Some(Ok(r)) : r \in FileRows} \cup {Some(Err)}

\* the reader after yielding item
Pulled(rdr, item) ==
    IF item.some THEN [rdr EXCEPT !.pos = @ + 1] ELSE [rdr EXCEPT !.done = TRUE]

\* the csv::Error pushed for a malformed record
CsvError(side, line) == [side |-> side, line |-> line]

AfterIterationNoBreak(errs) == "compare_lines"

AfterIterationStopAtCap(errs) ==
    IF errs # <<>> \/ Len(line_problems') >= max_problems_to_display
    THEN "compare_lines_returned"
    ELSE "compare_lines"

\* if !self.errors.is_empty() { break; }
AfterIteration(errs) == IF errs # <<>> THEN "compare_lines_returned" ELSE "compare_lines"

\* line_number += 1 is skipped by the break
NextLineNumber(errs, n) == IF errs # <<>> THEN n ELSE n + 1

\* the history of insert_* calls: how many of each, and the line passed to
\* the first and to the latest call of each row-count direction
Called(c, line_calls, extra_line, missing_line) ==
    [line |-> c.line + line_calls,
     extra |-> c.extra + (IF extra_line.some THEN 1 ELSE 0),
     missing |-> c.missing + (IF missing_line.some THEN 1 ELSE 0),
     first_extra |-> IF c.extra = 0 /\ extra_line.some THEN extra_line ELSE c.first_extra,
     first_missing |->
         IF c.missing = 0 /\ missing_line.some THEN missing_line ELSE c.first_missing,
     last_extra |-> IF extra_line.some THEN extra_line ELSE c.last_extra,
     last_missing |-> IF missing_line.some THEN missing_line ELSE c.last_missing]

\* both readers yield a parsed row, and the two have the same fields
SameRow(e, a) == e.some /\ a.some /\ e.val.ok /\ a.val.ok /\ e.val.row = a.val.row

\* one iteration of the loop; e and a are what the two readers yield, and
\* the three next values are what the match arm leaves
Iteration(e, a, lp, extra, missing, errs) ==
    /\ pc = "compare_lines"
    /\ e \in Pull(rdr0)
    /\ a \in Pull(rdr1)
    /\ rdr0' = Pulled(rdr0, e)
    /\ rdr1' = Pulled(rdr1, a)
    /\ lines' = [left |-> e, right |-> a, line |-> line_number]
    /\ identical' = (identical /\ SameRow(e, a))
    /\ line_problems' = lp
    /\ extra_lines_problem' = extra
    /\ missing_lines_problem' = missing
    /\ errors' = errs
    /\ pc' = AfterIteration(errs)
    /\ line_number' = NextLineNumber(errs, line_number)
    /\ calls' = Called(calls, Len(lp) - Len(line_problems),
                       IF extra # extra_lines_problem THEN Some(line_number) ELSE None,
                       IF missing # missing_lines_problem THEN Some(line_number) ELSE None)
    /\ UNCHANGED <<category_calls, max_problems_to_display, export>>

\* EitherOrBoth::Both, (Ok(expected_line), Ok(actual_line))
BothOkOk ==
    \E expected_line \in FileRows, actual_line \in FileRows :
        Iteration(Some(Ok(expected_line)), Some(Ok(actual_line)),
                  CompareLine(line_problems, max_problems_to_display, line_number,
                              expected_line, actual_line),
                  extra_lines_problem, missing_lines_problem, errors)

BothErrErrExpectedOnly ==
    Iteration(Some(Err), Some(Err), line_problems, extra_lines_problem,
              missing_lines_problem, Append(errors, CsvError("expected", line_number)))

\* EitherOrBoth::Both, (Err(expected_error), Err(actual_error))
BothErrErr ==
    Iteration(Some(Err), Some(Err), line_problems, extra_lines_problem,
              missing_lines_problem,
              errors \o <<CsvError("expected", line_number), CsvError("actual", line_number)>>)

\* EitherOrBoth::Both, (Err(error), _)
BothErrOk ==
    \E actual_line \in FileRows :
        Iteration(Some(Err), Some(Ok(actual_line)), line_problems, extra_lines_problem,
                  missing_lines_problem,
                  Append(errors, CsvError("expected", line_number)))

\* EitherOrBoth::Both, (_, Err(error))
BothOkErr ==
    \E expected_line \in FileRows :
        Iteration(Some(Ok(expected_line)), Some(Err), line_problems, extra_lines_problem,
                  missing_lines_problem,
                  Append(errors, CsvError("actual", line_number)))

\* EitherOrBoth::Left, Ok(_)
LeftOk ==
    \E expected_line \in FileRows :
        Iteration(Some(Ok(expected_line)), None, line_problems, extra_lines_problem,
                  InsertMissingLinesProblem(missing_lines_problem, line_number), errors)

\* EitherOrBoth::Left, Err(error)
LeftErr ==
    Iteration(Some(Err), None, line_problems, extra_lines_problem,
              missing_lines_problem, Append(errors, CsvError("expected", line_number)))

\* EitherOrBoth::Right, Ok(_)
RightOk ==
    \E actual_line \in FileRows :
        Iteration(None, Some(Ok(actual_line)), line_problems,
                  InsertExtraLinesProblem(extra_lines_problem, line_number),
                  missing_lines_problem, errors)

\* EitherOrBoth::Right, Err(error)
RightErr ==
    Iteration(None, Some(Err), line_problems, extra_lines_problem,
              missing_lines_problem, Append(errors, CsvError("actual", line_number)))

\* zip_longest yields None: both readers are exhausted, the loop ends
Exhausted ==
    /\ pc = "compare_lines"
    /\ None \in Pull(rdr0)
    /\ None \in Pull(rdr1)
    /\ rdr0' = Pulled(rdr0, None)
    /\ rdr1' = Pulled(rdr1, None)
    /\ pc' = "compare_lines_returned"
    /\ UNCHANGED <<category_calls, aggregate, errors, line_number, lines, identical,
                   export, calls>>

(* ------------------------- main (src/main.rs) ------------------------- *)

\* display_data up to the loop: the iterator is made, the locals are empty
StartDisplayData ==
    /\ displayable' = DisplayableProblems(max_problems_to_display, line_problems,
                                          extra_lines_problem, missing_lines_problem)
    /\ categories' = {}
    /\ problems' = <<>>
    /\ pc' = "display_data"
    /\ UNCHANGED <<category_calls, aggregate, driver, display, calls>>

HandleCrashReturns ==
    /\ pc = "compare_lines_returned"
    /\ errors # <<>>
    /\ StartDisplayData

\* if !summary.errors.is_empty() { handle_crash(&summary.errors) }: exit(1)
HandleCrash ==
    /\ pc = "compare_lines_returned"
    /\ errors # <<>>
    /\ pc' = "exit_1"
    /\ UNCHANGED <<category_calls, aggregate, driver, export, calls>>

\* generate_report(&summary.problems, ..) calls problems.display_data
GenerateReport ==
    /\ pc = "compare_lines_returned"
    /\ errors = <<>>
    /\ StartDisplayData

(* ------------- display_data and DisplayableProblems::next ------------- *)

\* the loop body, for the item next() returned:
\* categories.insert(problem.category()); problems.push(problem).
\* A push the allocator cannot serve aborts the process.
LoopBody(problem) ==
    IF Len(problems) >= VecCapacity
    THEN /\ pc' = "aborted"
         /\ UNCHANGED <<categories, problems>>
    ELSE /\ categories' = categories \cup {Category(problem)}
         /\ problems' = Append(problems, problem)
         /\ pc' = "display_data"

\* next(): line_problems_to_display > 0, the slice iterator yields an item
\* (it cannot be exhausted here: line_problems_to_display <= line_problems.len())
NextLineProblem ==
    /\ pc = "display_data"
    /\ displayable.line_problems_to_display > 0
    /\ displayable.iter <= Len(line_problems)
    /\ displayable' = [displayable EXCEPT !.line_problems_to_display = @ - 1,
                                          !.iter = @ + 1]
    /\ LoopBody(ProblemLine(line_problems[displayable.iter]))
    /\ UNCHANGED <<category_calls, aggregate, driver, display, calls>>

\* next(): the extra-lines problem is cloned and returned; the iterator keeps it
NextExtraLines ==
    /\ pc = "display_data"
    /\ displayable.line_problems_to_display = 0
    /\ displayable.extra_lines_problem.some
    /\ LoopBody(ProblemExtraLines(displayable.extra_lines_problem.val))
    /\ UNCHANGED <<category_calls, aggregate, driver, displayable, display, calls>>

\* next(): the missing-lines problem is cloned and returned; the iterator keeps it
NextMissingLines ==
    /\ pc = "display_data"
    /\ displayable.line_problems_to_display = 0
    /\ ~displayable.extra_lines_problem.some
    /\ displayable.missing_lines_problem.some
    /\ LoopBody(ProblemMissingLines(displayable.missing_lines_problem.val))
    /\ UNCHANGED <<category_calls, aggregate, driver, displayable, display, calls>>

\* next() returns None: the loop ends and display_data returns its value
NextNone ==
    /\ pc = "display_data"
    /\ displayable.line_problems_to_display = 0
    /\ ~displayable.extra_lines_problem.some
    /\ ~displayable.missing_lines_problem.some
    /\ display' = Some(DisplayProblems(
                      ProblemsLen(line_problems, extra_lines_problem, missing_lines_problem),
                      max_problems_to_display, categories, problems))
    /\ pc' = "exported"
    /\ UNCHANGED <<category_calls, aggregate, driver, displayable, categories, problems,
                   calls>>

DisplayData == NextLineProblem \/ NextExtraLines \/ NextMissingLines \/ NextNone

(* ---------------------- the program: main ----------------------------- *)

NoCalls == [line |-> 0, extra |-> 0, missing |-> 0,
            first_extra |-> None, first_missing |-> None,
            last_extra |-> None, last_missing |-> None]

NewReader == [pos |-> 0, done |-> FALSE]

\* Problems::new(cap) and the parts of the state not yet in use
Constructed(cap) ==
    /\ max_problems_to_display = cap
    /\ extra_lines_problem = None
    /\ missing_lines_problem = None
    /\ line_problems = <<>>
    /\ errors = <<>>
    /\ line_number = 1
    /\ rdr0 = NewReader
    /\ rdr1 = NewReader
    /\ lines = None
    /\ displayable = None
    /\ categories = {}
    /\ problems = <<>>
    /\ display = None
    /\ calls = NoCalls
    /\ identical = TRUE
    /\ category_calls = <<>>

\* main: both readers opened, Summary::new(None), compare_lines entered
Init ==
    /\ pc = "compare_lines"
    /\ Constructed(DEFAULT_MAX_PROBLEMS)

CompareLines ==
    \/ BothOkOk
    \/ BothErrErr
    \/ BothErrOk
    \/ BothOkErr
    \/ LeftOk
    \/ LeftErr
    \/ RightOk
    \/ RightErr
    \/ Exhausted

Next == CompareLines \/ HandleCrash \/ GenerateReport \/ DisplayData

Spec == Init /\ [][Next]_vars

\* the program is one sequential thread: it takes its next step while it has one
FairSpec == Spec /\ WF_vars(Next)

(* ------------------ the Problems type used directly ------------------- *)

\* the line problems passed to insert_line_problem
ApiLineProblems ==
    {MismatchedCell(1, 1, "a", "b"), ExtraCell(1, 2), MissingCell(2, 1)}

\* Problems::new(cap), cap positive
InitAPI ==
    /\ pc = "api"
    /\ \E cap \in 1..MaxCap : Constructed(cap)

ApiInsertLineProblem ==
    /\ pc = "api"
    /\ calls.line < MaxLineProblems
    /\ \E problem \in ApiLineProblems :
           line_problems' = InsertLineProblem(line_problems, max_problems_to_display,
                                              problem)
    /\ calls' = Called(calls, 1, None, None)
    /\ UNCHANGED <<category_calls, pc, max_problems_to_display, extra_lines_problem,
                   missing_lines_problem, driver, export>>

ApiInsertExtraLinesProblem ==
    /\ pc = "api"
    /\ calls.extra < MaxRowCalls
    /\ \E line \in 1..MaxLine :
           /\ extra_lines_problem' = InsertExtraLinesProblem(extra_lines_problem, line)
           /\ calls' = Called(calls, 0, Some(line), None)
    /\ UNCHANGED <<category_calls, pc, max_problems_to_display, missing_lines_problem,
                   line_problems,
                   driver, export>>

ApiInsertMissingLinesProblem ==
    /\ pc = "api"
    /\ calls.missing < MaxRowCalls
    /\ \E line \in 1..MaxLine :
           /\ missing_lines_problem' =
                  InsertMissingLinesProblem(missing_lines_problem, line)
           /\ calls' = Called(calls, 0, None, Some(line))
    /\ UNCHANGED <<category_calls, pc, max_problems_to_display, extra_lines_problem,
                   line_problems,
                   driver, export>>

\* display_data called on the aggregate
ApiDisplayData ==
    /\ pc = "api"
    /\ StartDisplayData

\* display_data in a build with overflow checks: the subtraction of
\* displayable_problems panics when it overflows
ApiDisplayDataPanic ==
    /\ pc = "api"
    /\ Underflows(max_problems_to_display, line_problems, extra_lines_problem,
                  missing_lines_problem)
    /\ pc' = "panicked"
    /\ UNCHANGED <<category_calls, aggregate, driver, export, calls>>

NextAPI ==
    \/ ApiInsertLineProblem
    \/ ApiInsertExtraLinesProblem
    \/ ApiInsertMissingLinesProblem
    \/ ApiDisplayData
    \/ ApiDisplayDataPanic
    \/ DisplayData

SpecAPI == InitAPI /\ [][NextAPI]_vars

(* ----------------------- compare_line on its own ---------------------- *)

\* compare_line about to be called with two rows at a line, on an aggregate
\* that is empty or already holds a problem of an earlier line
InitCompareLine ==
    /\ pc = "compare_line"
    /\ max_problems_to_display = DEFAULT_MAX_PROBLEMS
    /\ extra_lines_problem = None
    /\ missing_lines_problem = None
    /\ \E prior \in {<<>>, <<MissingCell(1, 1)>>} :
           /\ line_problems = prior
           /\ calls = Called(NoCalls, Len(prior), None, None)
    /\ errors = <<>>
    /\ \E line \in 2..(MaxLine + 1) : line_number = line
    /\ rdr0 = NewReader
    /\ rdr1 = NewReader
    /\ \E expected_line \in Rows, actual_line \in Rows :
           lines = [left |-> Some(Ok(expected_line)), right |-> Some(Ok(actual_line)),
                    line |-> line_number]
    /\ displayable = None
    /\ categories = {}
    /\ problems = <<>>
    /\ display = None
    /\ identical = TRUE
    /\ category_calls = <<>>

\* self.compare_line(line_number, &expected_line, &actual_line)
CompareLineCall ==
    /\ pc = "compare_line"
    /\ line_problems' = CompareLine(line_problems, max_problems_to_display, lines.line,
                                    lines.left.val.row, lines.right.val.row)
    /\ calls' = Called(calls, Len(line_problems') - Len(line_problems), None, None)
    /\ pc' = "compare_line_returned"
    /\ UNCHANGED <<category_calls, max_problems_to_display, extra_lines_problem,
                   missing_lines_problem,
                   driver, export>>

SpecCompareLine == InitCompareLine /\ [][CompareLineCall]_vars

(* ------------------- Summary::new with any cap ------------------------ *)

\* Summary::new(max_problems): max_problems.unwrap_or(DEFAULT_MAX_PROBLEMS),
\* for None (what main passes) and for Some(cap), cap positive
InitSummary ==
    /\ pc = "compare_lines"
    /\ \E cap \in {DEFAULT_MAX_PROBLEMS} \cup 1..MaxCap : Constructed(cap)

SpecSummary == InitSummary /\ [][Next]_vars

(* ---------------------- Problem::category on its own ------------------ *)

\* the problems Problem::category is called on: every variant, with every
\* line, column, text and count within the bounds
AllProblems ==
    {ProblemLine(MismatchedCell(line, column, expected, actual)) :
        line \in 1..MaxLine, column \in 1..MaxCols, expected \in Cells, actual \in Cells}
    \cup {ProblemLine(ExtraCell(line, column)) : line \in 1..MaxLine, column \in 1..MaxCols}
    \cup {ProblemLine(MissingCell(line, column)) : line \in 1..MaxLine, column \in 1..MaxCols}
    \cup {ProblemExtraLines(ExtraLinesProblem(line, n)) :
            line \in 1..MaxLine, n \in 1..MaxRowCalls}
    \cup {ProblemMissingLines(MissingLinesProblem(line, n)) :
            line \in 1..MaxLine, n \in 1..MaxRowCalls}

InitCategory ==
    /\ pc = "category"
    /\ Constructed(DEFAULT_MAX_PROBLEMS)

\* problem.category(), called at most twice
CategoryCall ==
    /\ pc = "category"
    /\ Len(category_calls) < 2
    /\ \E problem \in AllProblems :
           category_calls' = Append(category_calls,
                                    [problem |-> problem, category |-> Category(problem)])
    /\ UNCHANGED <<pc, aggregate, driver, export, calls>>

SpecCategory == InitCategory /\ [][CategoryCall]_vars

(* ------------------------------ claims -------------------------------- *)

Range(seq) == {seq[i] : i \in 1..Len(seq)}

IsPrefix(s, t) == Len(s) <= Len(t) /\ SubSeq(t, 1, Len(s)) = s

Exporting == pc \in {"display_data", "aborted", "exported"}

\* the number of row-count discrepancies present
RowCountPresent == Present(extra_lines_problem) + Present(missing_lines_problem)

\* the displayed list as section 4.5 of the spec constructs it
SpecDisplayed ==
    LET shown == Min(Len(line_problems), max_problems_to_display - RowCountPresent)
    IN  (IF shown >= 1
         THEN [i \in 1..shown |-> ProblemLine(line_problems[i])]
         ELSE <<>>)
        \o (IF extra_lines_problem.some
            THEN <<ProblemExtraLines(extra_lines_problem.val)>>
            ELSE <<>>)
        \o (IF missing_lines_problem.some
            THEN <<ProblemMissingLines(missing_lines_problem.val)>>
            ELSE <<>>)

\* C1: the list display_data builds is the first min(F, cap - R) field
\* discrepancies in discovery order, then the Extra Lines problem once if
\* present, then the Missing Lines problem once if present: the list under
\* construction never leaves that list, and the list returned equals it.
C1_DisplayedList ==
    Exporting =>
        /\ IsPrefix(problems, SpecDisplayed)
        /\ pc = "exported" => display.val.problems = SpecDisplayed

\* C2: a run with no Read Failure eventually yields a summary: once
\* compare_lines has returned with no error, display_data returns.
C2_ExportTerminates ==
    (pc = "compare_lines_returned" /\ errors = <<>>) ~> (pc = "exported")

\* C3: hard stop.  Once a Read Failure is recorded, at the step of line k,
\* the loop has been left, line_number stays k, neither reader has yielded
\* more than k items, every field discrepancy is of a line below k and every
\* extra/missing-line event was of a line below k.
C3_HardStop ==
    errors # <<>> =>
        /\ pc \in {"compare_lines_returned", "exit_1"}
        /\ \A i \in 1..Len(errors) : errors[i].line = line_number
        /\ lines.line = line_number
        /\ \/ lines.left.some /\ ~lines.left.val.ok
           \/ lines.right.some /\ ~lines.right.val.ok
        /\ rdr0.pos <= line_number
        /\ rdr1.pos <= line_number
        /\ \A i \in 1..Len(line_problems) : line_problems[i].line < line_number
        /\ extra_lines_problem.some =>
               extra_lines_problem.val.line + extra_lines_problem.val.num_extra - 1
                   < line_number
        /\ missing_lines_problem.some =>
               missing_lines_problem.val.line + missing_lines_problem.val.num_missing - 1
                   < line_number

C3_Witness ==
    /\ pc = "exit_1"
    /\ errors # <<>>
    /\ line_number = 3
    /\ Len(line_problems) >= 3

\* C4 as stated: the category list of the exported summary is the set of
\* categories of all recorded problems, displayed or not.
C4_AllRecordedCategories ==
    pc = "exported" => Range(display.val.problem_categories) = RecordedCategories

\* C4, amended: the category list of the exported summary is the set of
\* categories of the problems in its displayed list (and while the list is
\* built, the categories collected are those of the problems pushed so far).
C4_DisplayedCategories ==
    Exporting =>
        /\ categories = {Category(p) : p \in Range(problems)}
        /\ pc = "exported" =>
               Range(display.val.problem_categories)
                   = {Category(p) : p \in Range(display.val.problems)}

C4_Witness ==
    /\ pc = "exported"
    /\ Len(display.val.problems) >= 2
    /\ "MismatchedCells" \in Range(display.val.problem_categories)
    /\ "MissingCells" \in RecordedCategories
    /\ "MissingCells" \notin Range(display.val.problem_categories)

\* C5: len() is the number of insert_line_problem calls plus one for each
\* row-count direction recorded at least once, whatever the cap.
C5_LenIsTrueTotal ==
    ProblemsLen(line_problems, extra_lines_problem, missing_lines_problem)
        = calls.line + (IF calls.extra >= 1 THEN 1 ELSE 0)
                     + (IF calls.missing >= 1 THEN 1 ELSE 0)

C5_Witness ==
    /\ pc = "api"
    /\ calls.line > max_problems_to_display
    /\ calls.extra >= 2
    /\ calls.missing >= 1
    /\ ProblemsLen(line_problems, extra_lines_problem, missing_lines_problem)
           = calls.line + 2

\* C6: in every exported summary found_max_problems is true exactly when the
\* total problem count is at least the cap.
C6_TruncatedIffTotalAtLeastCap ==
    pc = "exported" =>
        (display.val.found_max_problems
            <=> ProblemsLen(line_problems, extra_lines_problem, missing_lines_problem)
                    >= max_problems_to_display)

C6_Witness ==
    /\ pc = "exported"
    /\ display.val.found_max_problems
    /\ display.val.num_problems = max_problems_to_display
    /\ max_problems_to_display >= 2

\* C7: the displayed list never has more than cap entries.
C7_DisplayedWithinCap ==
    /\ Len(problems) <= max_problems_to_display
    /\ display.some => Len(display.val.problems) <= max_problems_to_display

\* C8: with no Read Failure, m rows yielded by the expected reader and n by
\* the actual one, there is exactly the Extra Lines problem (count n - m,
\* line m + 1) if n > m, exactly the Missing Lines problem (count m - n,
\* line n + 1) if m > n, and no row-count problem if m = n.
C8_RowCountAggregated ==
    errors = <<>> =>
        LET m == rdr0.pos
            n == rdr1.pos
        IN  /\ extra_lines_problem =
                   (IF n > m THEN Some(ExtraLinesProblem(m + 1, n - m)) ELSE None)
            /\ missing_lines_problem =
                   (IF m > n THEN Some(MissingLinesProblem(n + 1, m - n)) ELSE None)

C8_Witness ==
    /\ pc = "compare_lines_returned"
    /\ errors = <<>>
    /\ rdr1.pos = 1
    /\ rdr0.pos = 3
    /\ missing_lines_problem = Some(MissingLinesProblem(2, 2))

\* C9: for each direction, no call yet means no problem; after c >= 1 calls
\* the one problem has count c and the line of the first call, whatever the
\* later calls of either direction passed.
C9_RowCountSingleton ==
    /\ calls.extra = 0 => extra_lines_problem = None
    /\ calls.extra >= 1 =>
           extra_lines_problem
               = Some(ExtraLinesProblem(calls.first_extra.val, calls.extra))
    /\ calls.missing = 0 => missing_lines_problem = None
    /\ calls.missing >= 1 =>
           missing_lines_problem
               = Some(MissingLinesProblem(calls.first_missing.val, calls.missing))

C9_Witness ==
    /\ calls.extra >= 2
    /\ calls.missing >= 2
    /\ calls.last_extra # calls.first_extra
    /\ calls.last_missing # calls.first_missing
    /\ extra_lines_problem.val.line # missing_lines_problem.val.line

\* the positions of two rows that differ
DifferingPositions(expected_line, actual_line) ==
    {i \in 1..(IF Len(expected_line) >= Len(actual_line)
               THEN Len(expected_line) ELSE Len(actual_line)) :
        \/ i > Len(expected_line)
        \/ i > Len(actual_line)
        \/ expected_line[i] # actual_line[i]}

\* the discrepancy the Line Comparator is to record for differing position i
DiscrepancyAt(expected_line, actual_line, line, i) ==
    IF i <= Len(expected_line) /\ i <= Len(actual_line)
    THEN MismatchedCell(line, i, expected_line[i], actual_line[i])
    ELSE IF i <= Len(expected_line) THEN MissingCell(line, i) ELSE ExtraCell(line, i)

\* C10: compare_line appends, in increasing column order and all with line
\* L, exactly one discrepancy per differing position i: Mismatched Cell
\* (E[i], A[i]) where both rows have the position, Missing Cell where only E
\* has it, Extra Cell where only A has it, each with column i; what the
\* aggregate held before stays in front, and equal rows add nothing.
C10_CompareLineResult ==
    pc = "compare_line_returned" =>
        LET expected_line == lines.left.val.row
            actual_line == lines.right.val.row
            line == lines.line
            D == DifferingPositions(expected_line, actual_line)
            before == SelectSeq(line_problems, LAMBDA p : p.line # line)
            recorded == SelectSeq(line_problems, LAMBDA p : p.line = line)
        IN  /\ line_problems = before \o recorded
            /\ before \in {<<>>, <<MissingCell(1, 1)>>}
            /\ Len(before) + Len(recorded) = calls.line
            /\ Len(recorded) = Cardinality(D)
            /\ \A k \in 1..Len(recorded) :
                   \E i \in D :
                       /\ Cardinality({j \in D : j < i}) = k - 1
                       /\ recorded[k] = DiscrepancyAt(expected_line, actual_line, line, i)

C10_Witness ==
    /\ pc = "compare_line_returned"
    /\ Len(lines.left.val.row) = 3
    /\ Len(lines.right.val.row) = 1
    /\ lines.left.val.row[1] # lines.right.val.row[1]
    /\ Len(line_problems) = 4

\* the reader yielded a malformed record
Malformed(item) == item.some /\ ~item.val.ok

\* C11: a run with a Read Failure never produces a summary: with errors
\* recorded the export is never entered and nothing is returned, the export
\* is only ever entered with no error, and the step after compare_lines
\* returns with errors is the exit of handle_crash.
C11_NoSummaryAfterReadFailure ==
    /\ [](/\ errors # <<>> =>
                /\ pc \in {"compare_lines_returned", "exit_1"}
                /\ displayable = None
                /\ display = None
          /\ Exporting => errors = <<>>
          /\ pc = "exit_1" => errors # <<>>)
    /\ [][pc = "compare_lines_returned" /\ errors # <<>> => pc' = "exit_1"]_vars

C11_Witness ==
    /\ pc = "exit_1"
    /\ Len(errors) = 1
    /\ errors[1].side = "actual"
    /\ display = None

C13_RunsToExhaustion ==
    errors = <<>> =>
        /\ line_number
               = (IF rdr0.pos >= rdr1.pos THEN rdr0.pos ELSE rdr1.pos) + 1
        /\ lines # None => lines.line = line_number - 1
        /\ lines = None => line_number = 1
        /\ pc # "compare_lines" => rdr0.done /\ rdr1.done

C13_Witness ==
    /\ pc = "compare_lines_returned"
    /\ errors = <<>>
    /\ Len(line_problems) > max_problems_to_display
    /\ rdr0.pos = 3
    /\ rdr1.pos = 2
    /\ line_number = 4

\* Problems::len of the aggregate in the current state
CurrentLen == ProblemsLen(line_problems, extra_lines_problem, missing_lines_problem)

\* C14: no step lowers len(), and an extra/missing-line insert for a
\* direction that is already present leaves len() as it was.
C14_LenNeverDecreases ==
    [][/\ CurrentLen' >= CurrentLen
       /\ (extra_lines_problem.some /\ calls'.extra = calls.extra + 1)
              => CurrentLen' = CurrentLen
       /\ (missing_lines_problem.some /\ calls'.missing = calls.missing + 1)
              => CurrentLen' = CurrentLen]_vars

C14_Witness ==
    /\ calls.extra = 2
    /\ calls.missing = 2
    /\ calls.line = 2
    /\ CurrentLen = 4

\* C15: when every step of the driver met two parsed rows with the same
\* fields (hence as many rows on one side as on the other, and no Read
\* Failure), nothing is recorded, the export ends, and the summary it
\* returns has count 0, truncation flag false, no category and no problem.
C15_IdenticalInputs ==
    identical =>
        /\ errors = <<>>
        /\ rdr0.pos = rdr1.pos
        /\ CurrentLen = 0
        /\ pc \notin {"exit_1", "aborted"}
        /\ pc = "exported" =>
               display = Some([num_problems |-> 0,
                               found_max_problems |-> FALSE,
                               problem_categories |-> <<>>,
                               problems |-> <<>>])

C15_Witness ==
    /\ pc = "exported"
    /\ identical
    /\ rdr0.pos = 2
    /\ rdr1.pos = 2
    /\ max_problems_to_display = 1
    /\ display.val.num_problems = 0

\* the order of the categories as the summary lists them
FixedOrder ==
    <<"MismatchedCells", "ExtraCells", "MissingCells", "ExtraLines", "MissingLines">>

Rank(category) == CHOOSE i \in 1..Len(FixedOrder) : FixedOrder[i] = category

\* C16: the category list of a returned summary is strictly increasing in
\* the fixed order Mismatched Cells, Extra Cells, Missing Cells, Extra Lines,
\* Missing Lines, hence without duplicates, whatever the order of the
\* inserts.
C16_CategoriesInFixedOrder ==
    pc = "exported" =>
        LET cats == display.val.problem_categories
        IN  /\ Range(cats) \subseteq Range(FixedOrder)
            /\ \A i \in 1..Len(cats) : \A j \in 1..Len(cats) :
                   i < j => Rank(cats[i]) < Rank(cats[j])

C16_Witness ==
    /\ pc = "exported"
    /\ Len(line_problems) = 3
    /\ line_problems[1].kind = "MissingCell"
    /\ line_problems[2].kind = "MismatchedCell"
    /\ display.val.problem_categories = <<"MismatchedCells", "MissingCells">>

\* the variant of a problem, without what it carries
VariantOf(problem) ==
    IF problem.variant = "Line" THEN problem.line_problem.kind ELSE problem.variant

\* the category the specification gives to each variant
CategoryOfVariant ==
    [v \in {"MismatchedCell", "ExtraCell", "MissingCell", "ExtraLines", "MissingLines"} |->
        CASE v = "MismatchedCell" -> "MismatchedCells"
          [] v = "ExtraCell" -> "ExtraCells"
          [] v = "MissingCell" -> "MissingCells"
          [] v = "ExtraLines" -> "ExtraLines"
          [] v = "MissingLines" -> "MissingLines"]

\* C17: every call of category returns the category of the problem's
\* variant, and two calls return the same category exactly when their
\* problems have the same variant, whatever line, column, text or count the
\* problems carry (two calls on one problem included).
C17_CategoryOfVariantAlone ==
    \A i \in 1..Len(category_calls) : \A j \in 1..Len(category_calls) :
        /\ category_calls[i].category
               = CategoryOfVariant[VariantOf(category_calls[i].problem)]
        /\ (category_calls[i].category = category_calls[j].category)
               <=> (VariantOf(category_calls[i].problem)
                        = VariantOf(category_calls[j].problem))

C17_Witness ==
    /\ Len(category_calls) = 2
    /\ category_calls[1].problem = ProblemExtraLines(ExtraLinesProblem(1, 1))
    /\ category_calls[2].problem = ProblemExtraLines(ExtraLinesProblem(2, 2))
    /\ category_calls[1].category = category_calls[2].category

\* C18: under the driver the field discrepancies are stored in line order:
\* lines never decrease along line_problems, columns strictly increase
\* within a line, every line is one of the aligned steps (at most the number
\* of rows either reader has yielded), and a row-count problem is anchored
\* past the line of every field discrepancy.
C18_DiscoveryOrderIsLineOrder ==
    /\ \A i \in 1..Len(line_problems) : \A j \in 1..Len(line_problems) :
           i < j =>
               /\ line_problems[i].line <= line_problems[j].line
               /\ line_problems[i].line = line_problems[j].line
                      => line_problems[i].column < line_problems[j].column
    /\ \A i \in 1..Len(line_problems) :
           /\ line_problems[i].line >= 1
           /\ line_problems[i].line <= Min(rdr0.pos, rdr1.pos)
           /\ extra_lines_problem.some
                  => line_problems[i].line < extra_lines_problem.val.line
           /\ missing_lines_problem.some
                  => line_problems[i].line < missing_lines_problem.val.line

C18_Witness ==
    /\ Len(line_problems) >= 3
    /\ line_problems[1].line = 1
    /\ line_problems[Len(line_problems)].line = 2
    /\ line_problems[1].line = line_problems[2].line
    /\ missing_lines_problem.some
    /\ missing_lines_problem.val.line = 3

\* C19: under the driver the Extra Lines problem and the Missing Lines
\* problem are never both present, and from the first extra/missing-line
\* event on no field discrepancy is recorded.
C19_OneRowCountDirection ==
    /\ [](RowCountPresent <= 1)
    /\ [][RowCountPresent >= 1 => line_problems' = line_problems]_vars

C19_Witness ==
    /\ extra_lines_problem.some
    /\ extra_lines_problem.val.num_extra = 1
    /\ ~missing_lines_problem.some
    /\ Len(line_problems) >= 2
    /\ errors # <<>>

\* C20: for every positive cap and every aggregate the inserts can build,
\* the number of row-count discrepancies present is at most the cap, so the
\* subtraction of displayable_problems does not underflow and display_data
\* does not panic on it.
C20_SubtractionNeverUnderflows ==
    /\ RowCountPresent <= max_problems_to_display
    /\ ~Underflows(max_problems_to_display, line_problems,
                   extra_lines_problem, missing_lines_problem)
    /\ pc # "panicked"

\* every recorded problem once: the field discrepancies in order, then
\* each row-count problem that is present
AllRecorded ==
    [i \in 1..Len(line_problems) |-> ProblemLine(line_problems[i])]
    \o (IF extra_lines_problem.some
        THEN <<ProblemExtraLines(extra_lines_problem.val)>>
        ELSE <<>>)
    \o (IF missing_lines_problem.some
        THEN <<ProblemMissingLines(missing_lines_problem.val)>>
        ELSE <<>>)

=============================================================================
